---------------------------- MODULE Spec2Model ----------------------------
(***************************************************************************)
(* Model of the diffusers image-generation server of docker/model-runner   *)
(* (python/diffusers_server): process start-up (__main__.main, run_server, *)
(* DiffusersPipeline.__init__), the request handler generate_images and    *)
(* the pure function parse_size.                                           *)
(*                                                                         *)
(* Strings that the code takes apart (the size field) are sequences of     *)
(* one-character strings; strings it only compares or copies are TLA+      *)
(* strings.  An exception is a record [type, msg]; str(e) is its msg.      *)
(***************************************************************************)
EXTENDS Integers, Sequences, FiniteSets, TLC

(***************************************************************************)
(* Bounds of the model.                                                    *)
(***************************************************************************)
\* number of HTTP clients with a request in flight
NumClients == 2
\* number of distinct images the model library can produce
NumImages == 2
\* longest size string enumerated for parse_size
MaxLen == 5

(***************************************************************************)
(* Program constants.                                                      *)
(***************************************************************************)
\* n: int = Field(default=1, ge=1, le=10)
MinN == 1
MaxN == 10
\* num_inference_steps = 50 if request.quality == "hd" else 30
HdSteps == 50
StdSteps == 30

Range(s) == {s[i] : i \in DOMAIN s}

(***************************************************************************)
(* str.lower(), str.split(sep), int(str)                                   *)
(***************************************************************************)
UpperLetters ==
    <<"A","B","C","D","E","F","G","H","I","J","K","L","M",
      "N","O","P","Q","R","S","T","U","V","W","X","Y","Z">>
LowerLetters ==
    <<"a","b","c","d","e","f","g","h","i","j","k","l","m",
      "n","o","p","q","r","s","t","u","v","w","x","y","z">>

LowerChar(ch) ==
    IF \E i \in DOMAIN UpperLetters : UpperLetters[i] = ch
    THEN LowerLetters[CHOOSE i \in DOMAIN UpperLetters : UpperLetters[i] = ch]
    ELSE ch

\* str.lower()
Lower(s) == [i \in DOMAIN s |-> LowerChar(s[i])]

\* str.split(sep) with a one-character separator: the pieces between the
\* occurrences of sep, empty pieces kept.
RECURSIVE SplitFrom(_, _, _, _)
SplitFrom(s, sep, i, cur) ==
    IF i > Len(s) THEN <<cur>>
    ELSE IF s[i] = sep THEN <<cur>> \o SplitFrom(s, sep, i + 1, <<>>)
    ELSE SplitFrom(s, sep, i + 1, Append(cur, s[i]))

Split(s, sep) == SplitFrom(s, sep, 1, <<>>)

Digits == <<"0","1","2","3","4","5","6","7","8","9">>
IsDigit(ch) == \E i \in DOMAIN Digits : Digits[i] = ch
DigitValue(ch) == (CHOOSE i \in DOMAIN Digits : Digits[i] = ch) - 1
Whitespace == {" ", "\t", "\n", "\r"}

\* str.strip()
RECURSIVE LStrip(_)
LStrip(s) == IF s # <<>> /\ Head(s) \in Whitespace THEN LStrip(Tail(s)) ELSE s
RECURSIVE RStrip(_)
RStrip(s) ==
    IF s # <<>> /\ s[Len(s)] \in Whitespace
    THEN RStrip(SubSeq(s, 1, Len(s) - 1)) ELSE s
Strip(s) == RStrip(LStrip(s))

NoValue == [ok |-> FALSE]
Value(v) == [ok |-> TRUE, val |-> v]

\* The digit part of an integer literal, scanned left to right: digits, with
\* single underscores allowed between two digits.  prev is "start", "digit"
\* or "underscore".
RECURSIVE ScanDigits(_, _, _, _)
ScanDigits(s, i, acc, prev) ==
    IF i > Len(s) THEN (IF prev = "digit" THEN Value(acc) ELSE NoValue)
    ELSE IF IsDigit(s[i])
         THEN ScanDigits(s, i + 1, acc * 10 + DigitValue(s[i]), "digit")
    ELSE IF s[i] = "_" /\ prev = "digit"
         THEN ScanDigits(s, i + 1, acc, "underscore")
    ELSE NoValue

\* int(s) for a str s, base 10: NoValue stands for ValueError.
PyInt(s) ==
    LET t == Strip(s)
        signed == t # <<>> /\ Head(t) \in {"-", "+"}
        body == IF signed THEN Tail(t) ELSE t
        mag == ScanDigits(body, 1, 0, "start")
    IN  IF ~mag.ok THEN NoValue
        ELSE IF signed /\ Head(t) = "-" THEN Value(0 - mag.val)
        ELSE Value(mag.val)

(***************************************************************************)
(* parse_size                                                              *)
(***************************************************************************)
SizeError(size) ==
    [ok |-> FALSE,
     error |-> [type |-> "ValueError", msg |-> <<"Invalid size format: ">> \o size]]

\* the lowering of the size string before it is split (size.lower())
SizeCaseFoldRaw(size) == size
SizeCaseFold(size) == Lower(size)

parse_size(size) ==
    LET parts == Split(SizeCaseFold(size), "x")
    IN  IF Len(parts) # 2 THEN SizeError(size)
        ELSE LET w == PyInt(parts[1])
                 h == PyInt(parts[2])
             IN  IF w.ok /\ h.ok
                 THEN [ok |-> TRUE, width |-> w.val, height |-> h.val]
                 ELSE SizeError(size)

(***************************************************************************)
(* Images, img.save(buffer, format="PNG"), base64.b64encode                *)
(***************************************************************************)
\* An image is its pixel bytes.  Image(k) has k bytes, so the encoded
\* lengths cover every base64 padding case.
Image(k) == [i \in 1..k |-> (37 * k + 11 * i) % 256]
Images == {Image(k) : k \in 1..NumImages}

\* The PNG container: the 8-byte signature, then the image data (the chunk
\* framing and the lossless deflate of the data are not modelled).
PngSignature == <<137, 80, 78, 71, 13, 10, 26, 10>>
PngSave(img) == PngSignature \o img

B64Alphabet == UpperLetters \o LowerLetters \o Digits \o <<"+", "/">>
B64Char(v) == B64Alphabet[v + 1]

\* base64.b64encode(bytes).decode("utf-8")
RECURSIVE B64Encode(_)
B64Encode(b) ==
    IF Len(b) = 0 THEN <<>>
    ELSE IF Len(b) = 1
         THEN <<B64Char(b[1] \div 4), B64Char((b[1] % 4) * 16), "=", "=">>
    ELSE IF Len(b) = 2
         THEN <<B64Char(b[1] \div 4),
                B64Char((b[1] % 4) * 16 + b[2] \div 16),
                B64Char((b[2] % 16) * 4), "=">>
    ELSE <<B64Char(b[1] \div 4),
           B64Char((b[1] % 4) * 16 + b[2] \div 16),
           B64Char((b[2] % 16) * 4 + b[3] \div 64),
           B64Char(b[3] % 64)>> \o B64Encode(SubSeq(b, 4, Len(b)))

\* ImageData(b64_json=b64_data)
ImageData(img) == [b64_json |-> B64Encode(PngSave(img))]

\* the loop "for img in images: ... data.append(ImageData(...))"
RECURSIVE EncodeAllReversed(_)
EncodeAllReversed(imgs) ==
    IF imgs = <<>> THEN <<>>
    ELSE Append(EncodeAllReversed(Tail(imgs)), ImageData(Head(imgs)))
RECURSIVE EncodeAll(_)
EncodeAll(imgs) ==
    IF imgs = <<>> THEN <<>>
    ELSE <<ImageData(Head(imgs))>> \o EncodeAll(Tail(imgs))

(***************************************************************************)
(* State                                                                   *)
(***************************************************************************)
VARIABLES
    \* __main__.main / run_server / DiffusersPipeline.__init__
    mainPc,             \* position of the main thread
    args,               \* the parsed command line
    probe,              \* what the environment answers: hardware, manifest
    device,             \* DiffusersPipeline.device
    dtype,              \* DiffusersPipeline.dtype
    loaderCalls,        \* from_pretrained calls made, per loader
    failedStep,         \* the step of start-up that raised, or "none"
    exc,                \* the exception that reached main, or NoExc
    exitCode,           \* the process's exit status, or NotExited
    served,             \* the HTTP server has taken a request
    \* server.py globals
    pipeline,           \* _pipeline: "None" or "loaded"
    served_model_names, \* _served_model_names
    \* one entry per client connection
    pc,                 \* position of the request
    req,                \* the ImageGenerationRequest
    running,            \* the request whose handler holds the event loop
    locals,             \* width, height, num_inference_steps of the handler
    genCalls,           \* calls of _pipeline.generate made for the request
    genArgs,            \* the keyword arguments of the last such call
    images,             \* the images the call returned
    raised,             \* the exception the call raised, or NoExc
    resp,               \* the HTTP response
    \* parse_size alone
    size_arg,
    size_result

startupVars ==
    <<mainPc, args, probe, device, dtype, loaderCalls, failedStep, exc,
      exitCode, served>>
globalVars == <<pipeline, served_model_names>>
requestVars ==
    <<pc, req, running, locals, genCalls, genArgs, images, raised, resp>>
sizeVars == <<size_arg, size_result>>
vars == <<startupVars, globalVars, requestVars, sizeVars>>

NoExc == [type |-> "none", msg |-> <<>>]
NotExited == 0 - 1
Unset == "unset"
NotParsed == [ok |-> FALSE, error |-> NoExc]

(***************************************************************************)
(* Start-up: __main__.main -> run_server -> DiffusersPipeline.__init__     *)
(***************************************************************************)
\* --device choices
DeviceHints == {"auto", "cpu", "cuda", "mps"}
\* --precision choices, and a string run_server can be handed directly
PrecisionHints == {"auto", "fp16", "bf16", "fp32", "int8"}
\* --served-model-name lists
NameLists == {<<>>, <<"m1">>, <<"m1", "m3">>}
ModelPath == "/models/sd"

\* what a call into torch / diffusers / the OS can raise
LoadErrors ==
    {[type |-> "OSError", msg |-> <<"no file named model_index.json">>],
     [type |-> "ValueError", msg |-> <<"unknown pipeline class">>]}
DeviceErrors ==
    {[type |-> "OutOfMemoryError", msg |-> <<"CUDA out of memory">>],
     [type |-> "AssertionError", msg |-> <<"Torch not compiled with CUDA enabled">>]}
SlicingErrors ==
    {[type |-> "AttributeError", msg |-> <<"no attribute enable_attention_slicing">>]}
BindErrors == {[type |-> "OSError", msg |-> <<"Address already in use">>]}

_resolve_device(hint) ==
    IF hint # "auto" THEN hint
    ELSE IF probe.cuda THEN "cuda"
    ELSE IF probe.mps THEN "mps"
    ELSE "cpu"

\* the devices on which precision "auto" selects float16
HalfPrecisionDevicesCudaOnly == {"cuda"}
HalfPrecisionDevices == {"cuda", "mps"}

_resolve_dtype(precision, dev) ==
    IF precision = "fp16" THEN "float16"
    ELSE IF precision = "bf16" THEN "bfloat16"
    ELSE IF precision = "fp32" THEN "float32"
    ELSE IF precision = "auto"
         THEN (IF dev \in HalfPrecisionDevices THEN "float16" ELSE "float32")
    ELSE "float32"

\* raise RuntimeError(f"Failed to load diffusers model from {path}: {e}")
LoadFailure(path, e) ==
    [type |-> "RuntimeError",
     msg |-> <<"Failed to load diffusers model from ", path, ": ">> \o e.msg]

NoLoaderCalls == [generic |-> 0, sdxl |-> 0, sd |-> 0]

\* __init__: self.device = self._resolve_device(device)
ResolveDevice ==
    /\ mainPc = "resolve_device"
    /\ device' = _resolve_device(args.device)
    /\ mainPc' = "resolve_dtype"
    /\ UNCHANGED <<args, probe, dtype, loaderCalls, failedStep, exc, exitCode,
                   served, globalVars, requestVars, sizeVars>>

\* __init__: self.dtype = self._resolve_dtype(precision)
ResolveDtype ==
    /\ mainPc = "resolve_dtype"
    /\ dtype' = _resolve_dtype(args.precision, device)
    /\ mainPc' = "from_pretrained"
    /\ UNCHANGED <<args, probe, device, loaderCalls, failedStep, exc, exitCode,
                   served, globalVars, requestVars, sizeVars>>

\* an exception leaves run_server and reaches main's "except Exception"
Raise(step, e) ==
    /\ failedStep' = step
    /\ exc' = e
    /\ mainPc' = "except"

\* _load_pipeline, manifest present: DiffusionPipeline.from_pretrained
LoadGeneric ==
    /\ mainPc = "from_pretrained"
    /\ probe.manifest
    /\ loaderCalls' = [loaderCalls EXCEPT !.generic = @ + 1]
    /\ \E out \in {NoExc} \cup LoadErrors :
         IF out = NoExc
         THEN /\ mainPc' = "to_device"
              /\ UNCHANGED <<failedStep, exc>>
         ELSE Raise("from_pretrained", LoadFailure(args.model_path, out))
    /\ UNCHANGED <<args, probe, device, dtype, exitCode, served, globalVars,
                   requestVars, sizeVars>>

\* _load_pipeline, manifest absent: StableDiffusionXLPipeline.from_pretrained;
\* "except Exception" falls through to the second loader
LoadSDXL ==
    /\ mainPc = "from_pretrained"
    /\ ~probe.manifest
    /\ loaderCalls' = [loaderCalls EXCEPT !.sdxl = @ + 1]
    /\ \E out \in {NoExc} \cup LoadErrors :
         mainPc' = IF out = NoExc THEN "to_device" ELSE "from_pretrained_sd"
    /\ UNCHANGED <<args, probe, device, dtype, failedStep, exc, exitCode,
                   served, globalVars, requestVars, sizeVars>>

\* _load_pipeline: StableDiffusionPipeline.from_pretrained
LoadSD ==
    /\ mainPc = "from_pretrained_sd"
    /\ loaderCalls' = [loaderCalls EXCEPT !.sd = @ + 1]
    /\ \E out \in {NoExc} \cup LoadErrors :
         IF out = NoExc
         THEN /\ mainPc' = "to_device"
              /\ UNCHANGED <<failedStep, exc>>
         ELSE Raise("from_pretrained", LoadFailure(args.model_path, out))
    /\ UNCHANGED <<args, probe, device, dtype, exitCode, served, globalVars,
                   requestVars, sizeVars>>

\* _load_pipeline: pipeline = pipeline.to(self.device), outside the try
MoveToDevice ==
    /\ mainPc = "to_device"
    /\ \E out \in {NoExc} \cup DeviceErrors :
         IF out = NoExc
         THEN /\ mainPc' = "attention_slicing"
              /\ UNCHANGED <<failedStep, exc>>
         ELSE Raise("to_device", out)
    /\ UNCHANGED <<args, probe, device, dtype, loaderCalls, exitCode, served,
                   globalVars, requestVars, sizeVars>>

\* _load_pipeline: if self.enable_attention_slicing:
\*                     pipeline.enable_attention_slicing()
AttentionSlicing ==
    /\ mainPc = "attention_slicing"
    /\ \E out \in {NoExc} \cup SlicingErrors :
         IF out = NoExc \/ ~args.enable_attention_slicing
         THEN /\ mainPc' = "xformers"
              /\ UNCHANGED <<failedStep, exc>>
         ELSE Raise("attention_slicing", out)
    /\ UNCHANGED <<args, probe, device, dtype, loaderCalls, exitCode, served,
                   globalVars, requestVars, sizeVars>>

\* _load_pipeline: on cuda, try enable_xformers_memory_efficient_attention(),
\* "except Exception" only logs; then return pipeline.  Back in run_server:
\* _pipeline = DiffusersPipeline(...); _served_model_names = names or []
Xformers ==
    /\ mainPc = "xformers"
    /\ \E out \in {"ok", "raises"} :
         /\ failedStep' =
              IF device = "cuda" /\ out = "raises" THEN "xformers" ELSE failedStep
         /\ mainPc' = "bind"
    /\ pipeline' = "loaded"
    /\ served_model_names' = args.served_model_name
    /\ UNCHANGED <<args, probe, device, dtype, loaderCalls, exc, exitCode,
                   served, requestVars, sizeVars>>

\* run_server: unlink the stale socket, bind, chmod, then server.run
BindSocket ==
    /\ mainPc = "bind"
    /\ \E out \in {NoExc} \cup BindErrors :
         IF out = NoExc
         THEN /\ mainPc' = "serving"
              /\ UNCHANGED <<failedStep, exc>>
         ELSE Raise("bind", out)
    /\ UNCHANGED <<args, probe, device, dtype, loaderCalls, exitCode, served,
                   globalVars, requestVars, sizeVars>>

\* server.run(sockets=[sock]) takes a request
AcceptRequest ==
    /\ mainPc = "serving"
    /\ served' = TRUE
    /\ UNCHANGED <<mainPc, args, probe, device, dtype, loaderCalls, failedStep,
                   exc, exitCode, globalVars, requestVars, sizeVars>>

\* main: except Exception as e: print(...); sys.exit(1)
MainExcept ==
    /\ mainPc = "except"
    /\ exitCode' = 1
    /\ mainPc' = "exited"
    /\ UNCHANGED <<args, probe, device, dtype, loaderCalls, failedStep, exc,
                   served, globalVars, requestVars, sizeVars>>

\* the server stops (signal): run_server's finally closes the socket, main
\* returns or handles KeyboardInterrupt with sys.exit(0)
Shutdown ==
    /\ mainPc = "serving"
    /\ exitCode' = 0
    /\ mainPc' = "exited"
    /\ UNCHANGED <<args, probe, device, dtype, loaderCalls, failedStep, exc,
                   served, globalVars, requestVars, sizeVars>>

(***************************************************************************)
(* Requests: POST /v1/images/generations                                   *)
(***************************************************************************)
Clients == 1..NumClients
NoTask == 0

Models == {"m1", "m2"}
Qualities == {"hd", "standard", "garbage"}
Formats == {"b64_json", "url"}
\* n as sent by a client, inside and outside Field(ge=1, le=10)
Ns == (MinN - 1)..(MaxN + 1)
DefaultSize == <<"1","0","2","4","x","1","0","2","4">>
RequestSizes ==
    {DefaultSize,
     <<"8","X","1","6">>,
     <<"0","x","8">>,
     <<"-","8","x","8">>,
     <<"b","a","d">>,
     <<"8","x","8","x","8">>,
     <<"8","x">>,
     <<>>}

Requests ==
    [model : Models, prompt : {"a cat"}, n : Ns, size : RequestSizes,
     quality : Qualities, response_format : Formats]

\* the few requests used when several clients are in flight together
ConcurrentRequests ==
    {[model |-> "m1", prompt |-> "a cat", n |-> 1, size |-> <<"8","x","8">>,
      quality |-> "standard", response_format |-> "b64_json"],
     [model |-> "m2", prompt |-> "a cat", n |-> 2, size |-> <<"8","x","8">>,
      quality |-> "hd", response_format |-> "url"],
     [model |-> "m1", prompt |-> "a cat", n |-> 1, size |-> <<"b","a","d">>,
      quality |-> "standard", response_format |-> "b64_json"]}

NoReq ==
    [model |-> "", prompt |-> "", n |-> 0, size |-> <<>>, quality |-> "",
     response_format |-> ""]
NoResp == [status |-> 0, detail |-> <<>>, data |-> <<>>]
NoLocals == [width |-> 0, height |-> 0, num_inference_steps |-> 0]
NoArgs ==
    [prompt |-> "", num_images |-> 0, width |-> 0, height |-> 0,
     num_inference_steps |-> 0, guidance_scale |-> "", negative_prompt |-> "",
     seed |-> ""]

\* raise HTTPException(status_code=..., detail=...)
HTTPException(status, detail) ==
    [status |-> status, detail |-> detail, data |-> <<>>]

\* what the model library can raise from the pipeline call
GenErrors ==
    {[type |-> "RuntimeError", msg |-> <<"CUDA out of memory">>],
     [type |-> "ValueError", msg |-> <<"height and width have to be divisible by 8">>]}

\* what the pipeline call returns: num_images_per_prompt images, here the
\* model's images in rotation from any starting one
GenResults(n) ==
    {[i \in 1..n |-> Image(((s + i) % NumImages) + 1)] : s \in 0..(NumImages - 1)}

\* ImageGenerationRequest: n: int = Field(default=1, ge=1, le=10)
SchemaAccepts(r) == MinN <= r.n /\ r.n <= MaxN

\* if _served_model_names and request.model not in _served_model_names
ModelRejectedEmptyToo(r) == r.model \notin Range(served_model_names)
ModelRejected(r) ==
    served_model_names # <<>> /\ r.model \notin Range(served_model_names)

ModelNotFound(r) ==
    HTTPException(404,
        <<"Model '", r.model, "' not found. Available: ">> \o served_model_names)

\* generate_images up to the call of generate: the readiness, model-name and
\* size checks in the order of the code
PrecheckSizeFirst(r) ==
    LET p == parse_size(r.size)
    IN  IF ~p.ok
        THEN [pass |-> FALSE, resp |-> HTTPException(400, p.error.msg)]
        ELSE IF pipeline = "None"
        THEN [pass |-> FALSE, resp |-> HTTPException(503, <<"Model not loaded">>)]
        ELSE IF ModelRejected(r)
        THEN [pass |-> FALSE, resp |-> ModelNotFound(r)]
        ELSE [pass |-> TRUE, width |-> p.width, height |-> p.height]
Precheck(r) ==
    IF pipeline = "None"
    THEN [pass |-> FALSE, resp |-> HTTPException(503, <<"Model not loaded">>)]
    ELSE IF ModelRejected(r)
    THEN [pass |-> FALSE, resp |-> ModelNotFound(r)]
    ELSE LET p == parse_size(r.size)
         IN  IF ~p.ok
             THEN [pass |-> FALSE, resp |-> HTTPException(400, p.error.msg)]
             ELSE [pass |-> TRUE, width |-> p.width, height |-> p.height]

\* num_inference_steps = 50 if request.quality == "hd" else 30
StepsFor(quality) == IF quality = "hd" THEN HdSteps ELSE StdSteps

\* _pipeline.generate(prompt=, num_images=, width=, height=,
\*                    num_inference_steps=) with generate's defaults
GenerateArgs(r, l) ==
    [prompt |-> r.prompt, num_images |-> r.n, width |-> l.width,
     height |-> l.height, num_inference_steps |-> l.num_inference_steps,
     guidance_scale |-> "7.5", negative_prompt |-> "None", seed |-> "None"]

\* except Exception as e: raise HTTPException(status_code=500, detail=str(e))
GenerationFailedOpaque(e) == HTTPException(500, <<"Internal Server Error">>)
GenerationFailed(e) == HTTPException(500, e.msg)

\* the encoding loop and the return: the format is looked at once per image
EncodeResponse(r, imgs) ==
    IF imgs # <<>> /\ r.response_format # "b64_json"
    THEN HTTPException(400,
             <<"response_format 'url' not supported, use 'b64_json'">>)
    ELSE [status |-> 200, detail |-> <<>>, data |-> EncodeAll(imgs)]

\* the event loop is free to start a handler: generate_images is a coroutine
\* ("async def") without an await, so it keeps the loop from entry to return
LoopFreeAlways == TRUE
LoopFree == running = NoTask

\* a client sends a request; the handler of no other request is pending
Accept(c, r) ==
    /\ pc[c] = "idle"
    /\ mainPc = "serving"
    /\ pc' = [pc EXCEPT ![c] = "received"]
    /\ req' = [req EXCEPT ![c] = r]
    /\ UNCHANGED <<running, locals, genCalls, genArgs, images, raised, resp,
                   startupVars, globalVars, sizeVars>>

\* requests one at a time, any request
Arrive(c) ==
    /\ \A d \in Clients : pc[d] = "idle"
    /\ \E r \in Requests : Accept(c, r)

\* requests from several clients in any interleaving
ArriveAny(c) == \E r \in ConcurrentRequests : Accept(c, r)

\* FastAPI reads the body and validates it against ImageGenerationRequest
\* on the event loop; a rejected body is answered 422 without the handler
Validate(c) ==
    /\ pc[c] = "received"
    /\ running = NoTask
    /\ IF SchemaAccepts(req[c])
       THEN /\ pc' = [pc EXCEPT ![c] = "validated"]
            /\ UNCHANGED resp
       ELSE /\ pc' = [pc EXCEPT ![c] = "done"]
            /\ resp' = [resp EXCEPT ![c] =
                          HTTPException(422, <<"validation error">>)]
    /\ UNCHANGED <<req, running, locals, genCalls, genArgs, images, raised,
                   startupVars, globalVars, sizeVars>>

\* the event loop calls generate_images(request)
EnterHandler(c) ==
    /\ pc[c] = "validated"
    /\ LoopFree
    /\ running' = c
    /\ pc' = [pc EXCEPT ![c] = "checks"]
    /\ UNCHANGED <<req, locals, genCalls, genArgs, images, raised, resp,
                   startupVars, globalVars, sizeVars>>

\* generate_images: the three checks and the quality mapping
RunChecks(c) ==
    /\ pc[c] = "checks"
    /\ LET chk == Precheck(req[c])
       IN  IF chk.pass
           THEN /\ locals' = [locals EXCEPT ![c] =
                                [width |-> chk.width, height |-> chk.height,
                                 num_inference_steps |-> StepsFor(req[c].quality)]]
                /\ pc' = [pc EXCEPT ![c] = "call"]
                /\ UNCHANGED <<running, resp>>
           ELSE /\ resp' = [resp EXCEPT ![c] = chk.resp]
                /\ pc' = [pc EXCEPT ![c] = "done"]
                /\ running' = IF running = c THEN NoTask ELSE running
                /\ UNCHANGED locals
    /\ UNCHANGED <<req, genCalls, genArgs, images, raised, startupVars,
                   globalVars, sizeVars>>

\* generate_images: images = _pipeline.generate(...); DiffusersPipeline.generate
\* builds the keyword arguments and enters self.pipeline(**kwargs)
CallGenerate(c) ==
    /\ pc[c] = "call"
    /\ genArgs' = [genArgs EXCEPT ![c] = GenerateArgs(req[c], locals[c])]
    /\ genCalls' = [genCalls EXCEPT ![c] = @ + 1]
    /\ pc' = [pc EXCEPT ![c] = "generating"]
    /\ UNCHANGED <<req, running, locals, images, raised, resp, startupVars,
                   globalVars, sizeVars>>

\* the pipeline call returns: return result.images
GenerateReturns(c) ==
    /\ pc[c] = "generating"
    /\ \E imgs \in GenResults(genArgs[c].num_images) :
         images' = [images EXCEPT ![c] = imgs]
    /\ pc' = [pc EXCEPT ![c] = "encode"]
    /\ UNCHANGED <<req, running, locals, genCalls, genArgs, raised, resp,
                   startupVars, globalVars, sizeVars>>

\* the pipeline call raises: generate passes the exception on, the handler
\* answers 500
GenerateRaises(c) ==
    /\ pc[c] = "generating"
    /\ \E e \in GenErrors :
         /\ raised' = [raised EXCEPT ![c] = e]
         /\ resp' = [resp EXCEPT ![c] = GenerationFailed(e)]
    /\ pc' = [pc EXCEPT ![c] = "done"]
    /\ running' = IF running = c THEN NoTask ELSE running
    /\ UNCHANGED <<req, locals, genCalls, genArgs, images, startupVars,
                   globalVars, sizeVars>>

\* generate_images: the encoding loop and the response
Encode(c) ==
    /\ pc[c] = "encode"
    /\ resp' = [resp EXCEPT ![c] = EncodeResponse(req[c], images[c])]
    /\ pc' = [pc EXCEPT ![c] = "done"]
    /\ running' = IF running = c THEN NoTask ELSE running
    /\ UNCHANGED <<req, locals, genCalls, genArgs, images, raised,
                   startupVars, globalVars, sizeVars>>

\* the response is sent and the request's objects are dropped
Deliver(c) ==
    /\ pc[c] = "done"
    /\ pc' = [pc EXCEPT ![c] = "idle"]
    /\ req' = [req EXCEPT ![c] = NoReq]
    /\ locals' = [locals EXCEPT ![c] = NoLocals]
    /\ genCalls' = [genCalls EXCEPT ![c] = 0]
    /\ genArgs' = [genArgs EXCEPT ![c] = NoArgs]
    /\ images' = [images EXCEPT ![c] = <<>>]
    /\ raised' = [raised EXCEPT ![c] = NoExc]
    /\ resp' = [resp EXCEPT ![c] = NoResp]
    /\ UNCHANGED <<running, startupVars, globalVars, sizeVars>>

(***************************************************************************)
(* parse_size applied to one string                                        *)
(***************************************************************************)
SizeAlphabet == {"0", "1", "x", "X", "a", "-", "+", " ", "_"}
SizeStrings == UNION {[1..k -> SizeAlphabet] : k \in 0..MaxLen}

ParseSize ==
    /\ size_result = NotParsed
    /\ size_result' = parse_size(size_arg)
    /\ UNCHANGED <<size_arg, startupVars, globalVars, requestVars>>

(***************************************************************************)
(* Initial states and specifications                                       *)
(***************************************************************************)
DefaultArgs ==
    [model_path |-> ModelPath, device |-> "auto", precision |-> "auto",
     enable_attention_slicing |-> FALSE, served_model_name |-> <<>>]
DefaultProbe == [cuda |-> FALSE, mps |-> FALSE, manifest |-> TRUE]

NoRequests ==
    /\ pc = [c \in Clients |-> "idle"]
    /\ req = [c \in Clients |-> NoReq]
    /\ running = NoTask
    /\ locals = [c \in Clients |-> NoLocals]
    /\ genCalls = [c \in Clients |-> 0]
    /\ genArgs = [c \in Clients |-> NoArgs]
    /\ images = [c \in Clients |-> <<>>]
    /\ raised = [c \in Clients |-> NoExc]
    /\ resp = [c \in Clients |-> NoResp]

NoSize ==
    /\ size_arg = <<>>
    /\ size_result = NotParsed

\* the process at the entry of main: module globals as server.py sets them
InitStartup ==
    /\ mainPc = "resolve_device"
    /\ args \in [model_path : {ModelPath}, device : DeviceHints,
                 precision : PrecisionHints,
                 enable_attention_slicing : BOOLEAN,
                 served_model_name : NameLists]
    /\ probe \in [cuda : BOOLEAN, mps : BOOLEAN, manifest : BOOLEAN]
    /\ device = Unset
    /\ dtype = Unset
    /\ loaderCalls = NoLoaderCalls
    /\ failedStep = "none"
    /\ exc = NoExc
    /\ exitCode = NotExited
    /\ served = FALSE
    /\ pipeline = "None"
    /\ served_model_names = <<>>
    /\ NoRequests
    /\ NoSize

\* the app while it serves: after run_server has loaded the pipeline and set
\* the served names, or the module's app served without run_server, where
\* _pipeline is None and _served_model_names is []
InitServing ==
    /\ mainPc = "serving"
    /\ args = DefaultArgs
    /\ probe = DefaultProbe
    /\ device = "cpu"
    /\ dtype = "float32"
    /\ loaderCalls = [NoLoaderCalls EXCEPT !.generic = 1]
    /\ failedStep = "none"
    /\ exc = NoExc
    /\ exitCode = NotExited
    /\ served = FALSE
    /\ \/ pipeline = "None" /\ served_model_names = <<>>
       \/ pipeline = "loaded" /\ served_model_names \in NameLists
    /\ NoRequests
    /\ NoSize

InitSize ==
    /\ mainPc = "resolve_device"
    /\ args = DefaultArgs
    /\ probe = DefaultProbe
    /\ device = Unset
    /\ dtype = Unset
    /\ loaderCalls = NoLoaderCalls
    /\ failedStep = "none"
    /\ exc = NoExc
    /\ exitCode = NotExited
    /\ served = FALSE
    /\ pipeline = "None"
    /\ served_model_names = <<>>
    /\ NoRequests
    /\ size_arg \in SizeStrings
    /\ size_result = NotParsed

Handle(c) ==
    \/ Validate(c)
    \/ EnterHandler(c)
    \/ RunChecks(c)
    \/ CallGenerate(c)
    \/ GenerateReturns(c)
    \/ GenerateRaises(c)
    \/ Encode(c)
    \/ Deliver(c)

Next == \E c \in Clients : Arrive(c) \/ Handle(c)
NextConcurrent == \E c \in Clients : ArriveAny(c) \/ Handle(c)
NextStartup ==
    \/ ResolveDevice
    \/ ResolveDtype
    \/ LoadGeneric
    \/ LoadSDXL
    \/ LoadSD
    \/ MoveToDevice
    \/ AttentionSlicing
    \/ Xformers
    \/ BindSocket
    \/ AcceptRequest
    \/ MainExcept
    \/ Shutdown
NextSize == ParseSize

\* one request at a time, every request of the domain
Spec == InitServing /\ [][Next]_vars
\* several requests in flight
SpecConcurrent == InitServing /\ [][NextConcurrent]_vars
\* the process from the entry of main
SpecStartup == InitStartup /\ [][NextStartup]_vars
\* parse_size over every short string
SpecSize == InitSize /\ [][NextSize]_vars

(***************************************************************************)
(* Vocabulary of the properties, stated without the operators above        *)
(***************************************************************************)
\* t is an integer as written: optional blanks around an optionally signed
\* run of decimal digits, in which single underscores may separate digits
IsIntText(t) ==
    \E a \in 1..Len(t) : \E b \in a..Len(t) :
        /\ \A k \in 1..(a - 1) : t[k] \in Whitespace
        /\ \A k \in (b + 1)..Len(t) : t[k] \in Whitespace
        /\ LET first == IF t[a] \in {"+", "-"} THEN a + 1 ELSE a
           IN  /\ first <= b
               /\ IsDigit(t[first])
               /\ IsDigit(t[b])
               /\ \A k \in first..b :
                    \/ IsDigit(t[k])
                    \/ t[k] = "_" /\ IsDigit(t[k - 1]) /\ IsDigit(t[k + 1])

RECURSIVE Pow10(_)
Pow10(k) == IF k = 0 THEN 1 ELSE 10 * Pow10(k - 1)

RECURSIVE PlaceSum(_, _)
PlaceSum(d, i) ==
    IF i > Len(d) THEN 0
    ELSE DigitValue(d[i]) * Pow10(Len(d) - i) + PlaceSum(d, i + 1)

\* the integer written in t: its digits weighted by their places
WrittenValue(t) ==
    LET d == SelectSeq(t, IsDigit)
    IN  IF "-" \in Range(t) THEN 0 - PlaceSum(d, 1) ELSE PlaceSum(d, 1)

SeparatorPositions(s) == {i \in 1..Len(s) : s[i] \in {"x", "X"}}
LeftOf(s) == SubSeq(s, 1, (CHOOSE i \in SeparatorPositions(s) : TRUE) - 1)
RightOf(s) == SubSeq(s, (CHOOSE i \in SeparatorPositions(s) : TRUE) + 1, Len(s))

\* s has the form <int>x<int>
WellFormedSize(s) ==
    /\ Cardinality(SeparatorPositions(s)) = 1
    /\ IsIntText(LeftOf(s))
    /\ IsIntText(RightOf(s))

B64Index(ch) == (CHOOSE i \in DOMAIN B64Alphabet : B64Alphabet[i] = ch) - 1

\* base64 text back to bytes
RECURSIVE B64Decode(_)
B64Decode(t) ==
    IF Len(t) < 4 THEN <<>>
    ELSE LET v1 == B64Index(t[1])
             v2 == B64Index(t[2])
             b1 == v1 * 4 + v2 \div 16
         IN  IF t[3] = "=" THEN <<b1>>
             ELSE LET v3 == B64Index(t[3])
                      b2 == (v2 % 16) * 16 + v3 \div 4
                  IN  IF t[4] = "=" THEN <<b1, b2>>
                      ELSE <<b1, b2, (v3 % 4) * 64 + B64Index(t[4])>>
                           \o B64Decode(SubSeq(t, 5, Len(t)))

\* the image inside a PNG container
PngLoad(bytes) ==
    IF Len(bytes) >= 8 /\ SubSeq(bytes, 1, 8) = PngSignature
    THEN SubSeq(bytes, 9, Len(bytes))
    ELSE <<>>

\* the request's model name is refused by the served-name list
Unlisted(r) ==
    served_model_names # <<>> /\ \A i \in DOMAIN served_model_names :
                                    served_model_names[i] # r.model

(***************************************************************************)
(* Properties                                                              *)
(***************************************************************************)

\* C1: a request whose response_format is not "b64_json" (runtime loaded,
\* model name accepted, size valid) is answered 400 and generate is never
\* invoked for it.
UnsupportedFormatRejectedBeforeGenerate ==
    \A c \in Clients :
        ( /\ pipeline = "loaded"
          /\ SchemaAccepts(req[c])
          /\ ~Unlisted(req[c])
          /\ WellFormedSize(req[c].size)
          /\ req[c].response_format # "b64_json" )
        => /\ genCalls[c] = 0
           /\ pc[c] = "done" => resp[c].status = 400

\* C2: with a non-empty served-name list, a request whose model is not in it
\* is answered 404 and never reaches generate; with an empty list no request
\* is answered 404.
ModelAllowListEnforced ==
    \A c \in Clients :
        SchemaAccepts(req[c]) =>
            /\ Unlisted(req[c]) =>
                 /\ genCalls[c] = 0
                 /\ pc[c] \notin {"call", "generating", "encode"}
                 /\ pc[c] = "done" => resp[c].status = 404
            /\ served_model_names = <<>> => resp[c].status # 404

UnlistedModelAnswered404 ==
    \E c \in Clients :
        /\ pc[c] = "done"
        /\ Unlisted(req[c])
        /\ resp[c].status = 404

\* C3: a 200 response carries exactly the requested n entries, 1 <= n <= 10,
\* and entry i decodes to the i-th image the generation call returned.
SuccessHasRequestedImagesInOrder ==
    \A c \in Clients :
        (pc[c] = "done" /\ resp[c].status = 200) =>
            /\ req[c].n \in MinN..MaxN
            /\ Len(resp[c].data) = req[c].n
            /\ Len(images[c]) = req[c].n
            /\ \A i \in 1..req[c].n :
                 PngLoad(B64Decode(resp[c].data[i].b64_json)) = images[c][i]

SeveralImagesReturned ==
    \E c \in Clients :
        /\ pc[c] = "done"
        /\ resp[c].status = 200
        /\ req[c].n >= 3
        /\ images[c][1] # images[c][2]

\* C4: when the model call raises, the response is 500 with the error's
\* message, carries no image entry, and generate was invoked exactly once.
GenerationErrorIs500Once ==
    \A c \in Clients :
        /\ genCalls[c] <= 1
        /\ raised[c] # NoExc =>
             /\ pc[c] = "done"
             /\ resp[c].status = 500
             /\ resp[c].detail = raised[c].msg
             /\ resp[c].data = <<>>
             /\ genCalls[c] = 1

GenerationRaised ==
    \E c \in Clients : raised[c] # NoExc /\ pc[c] = "done"

\* C5: parse_size returns the two integers written for every string of the
\* form <int>x<int> (separator in either case) and fails with an error that
\* names the string for every other string.
SizeParsedAsWritten ==
    size_result # NotParsed =>
        IF WellFormedSize(size_arg)
        THEN size_result =
                 [ok |-> TRUE, width |-> WrittenValue(LeftOf(size_arg)),
                  height |-> WrittenValue(RightOf(size_arg))]
        ELSE /\ ~size_result.ok
             /\ size_result.error.type = "ValueError"
             /\ Tail(size_result.error.msg) = size_arg

UpperCaseSeparatorParsed ==
    /\ size_result.ok
    /\ "X" \in Range(size_arg)
    /\ size_result.width < 0

\* C6: the checks apply in the order readiness, model name, size, and the
\* first that fails decides the response: 503 "Model not loaded" while the
\* runtime is not loaded, 404 for an unaccepted model name even with a
\* malformed size, 400 for a malformed size alone; generate is not invoked
\* in any of these cases.
ChecksInOrder ==
    \A c \in Clients :
        SchemaAccepts(req[c]) =>
            /\ pipeline = "None" =>
                 /\ genCalls[c] = 0
                 /\ pc[c] = "done" =>
                      /\ resp[c].status = 503
                      /\ resp[c].detail = <<"Model not loaded">>
            /\ (pipeline = "loaded" /\ Unlisted(req[c])) =>
                 /\ genCalls[c] = 0
                 /\ pc[c] = "done" => resp[c].status = 404
            /\ ( /\ pipeline = "loaded"
                 /\ ~Unlisted(req[c])
                 /\ ~WellFormedSize(req[c].size) ) =>
                 /\ genCalls[c] = 0
                 /\ pc[c] = "done" => resp[c].status = 400

UnlistedModelWithBadSizeAnswered ==
    \E c \in Clients :
        /\ pc[c] = "done"
        /\ SchemaAccepts(req[c])
        /\ Unlisted(req[c])
        /\ ~WellFormedSize(req[c].size)
        /\ req[c].response_format = "url"
        /\ resp[c].status = 404

\* C7 as stated: the resolved configuration never pairs device cpu with
\* float16, and with precision hint auto the precision is float16 exactly
\* when the device is not cpu and float32 otherwise.
NeverHalfPrecisionOnCpu ==
    dtype # Unset =>
        /\ ~(device = "cpu" /\ dtype = "float16")
        /\ args.precision = "auto" =>
             /\ dtype = "float16" <=> device # "cpu"
             /\ dtype = "float32" <=> device = "cpu"

\* C7 as amended: device cpu is paired with float16 only when the precision
\* hint is explicitly fp16; with precision hint auto the precision is
\* float16 exactly when the device is not cpu and float32 otherwise.
HalfPrecisionOnCpuOnlyOnRequest ==
    dtype # Unset =>
        /\ (device = "cpu" /\ dtype = "float16") => args.precision = "fp16"
        /\ args.precision = "auto" =>
             /\ dtype = "float16" <=> device # "cpu"
             /\ dtype = "float32" <=> device = "cpu"

AutoResolvedToMetalHalfPrecision ==
    /\ args.device = "auto"
    /\ args.precision = "auto"
    /\ device = "mps"
    /\ dtype = "float16"

\* C8: whichever step of the load fails (a loader, or a later step of the
\* load), the caller gets the one RuntimeError "Failed to load diffusers
\* model from <path>: <cause>", no loader is called twice, the process exits
\* non-zero and never serves a request; failing to enable memory-efficient
\* attention alone never fails the load.
LoadFailureWrappedAndFatal ==
    /\ \A l \in DOMAIN loaderCalls : loaderCalls[l] <= 1
    /\ failedStep = "xformers" => exc = NoExc
    /\ failedStep \in {"from_pretrained", "to_device", "attention_slicing"} =>
         /\ exc.type = "RuntimeError"
         /\ Len(exc.msg) > 3
         /\ SubSeq(exc.msg, 1, 3) =
                <<"Failed to load diffusers model from ", args.model_path, ": ">>
         /\ ~served
         /\ mainPc \in {"except", "exited"}
         /\ mainPc = "exited" => exitCode > 0

\* C9: every call of generate gets num_images in 1..10, width > 0,
\* height > 0 and steps > 0, the steps being 50 for quality "hd" and 30 for
\* any other quality.
GenerateParametersValid ==
    \A c \in Clients :
        genCalls[c] > 0 =>
            /\ genArgs[c].num_images \in MinN..MaxN
            /\ genArgs[c].width > 0
            /\ genArgs[c].height > 0
            /\ genArgs[c].num_inference_steps > 0
            /\ genArgs[c].num_inference_steps =
                   (IF req[c].quality = "hd" THEN HdSteps ELSE StdSteps)

\* C10: no two generate calls are in progress together, and while one runs
\* no other request is anywhere in its handler (checks, call, encoding).
OneGenerationAtATime ==
    \A c \in Clients : \A d \in Clients \ {c} :
        pc[c] = "generating" =>
            pc[d] \notin {"checks", "call", "generating", "encode"}

RequestWaitsDuringGeneration ==
    \E c \in Clients : \E d \in Clients \ {c} :
        /\ pc[c] = "generating"
        /\ pc[d] = "validated"

=============================================================================
